---- MODULE Spec2Model ----
(***************************************************************************)
(* Model of robot/api/interfaces.py: the optional base classes             *)
(* DynamicLibrary and HybridLibrary, the Python class machinery they rely  *)
(* on (abc.ABC instantiation, attribute lookup along the MRO, super()),    *)
(* and a library ("plugin") class deriving from them.                      *)
(*                                                                         *)
(* A plugin class is an input: which bases it lists, which methods its     *)
(* body defines, whether those bodies return their own value or delegate   *)
(* with super(), and which keyword names it enumerates.  Names are         *)
(* sequences of characters.  The keyword names a plugin enumerates are     *)
(* kept as a set: no statement checked here depends on their order.        *)
(***************************************************************************)
EXTENDS Naturals, Sequences, FiniteSets

VARIABLES plugin, inst, attrs, last, enumerated

vars == <<plugin, inst, attrs, last, enumerated>>

----------------------------------------------------------------------------
(* Bounds *)

MaxKeywords == 1    \* keyword names one plugin enumerates
MaxPrivate == 1     \* value reached by the plugin's private call counter
MaxArgs == 1        \* positional arguments handed to a keyword

----------------------------------------------------------------------------
(* Values *)

None == "None"
NotImplementedError == "NotImplementedError"
AttributeError == "AttributeError"
TypeError == "TypeError"
OwnValue == "own"          \* what a plugin's own method body returns
NameList == "names"        \* get_keyword_names returned a list (field names)

DynamicLibrary == "DynamicLibrary"
HybridLibrary == "HybridLibrary"
ABC == "ABC"
Plugin == "plugin"
NoClass == "-"

\* Name = str: the sample names differ only in case and in an underscore
KeywordNames == { <<"K", "w">>, <<"k", "w">>, <<"K", "_", "w">> }

Intro == <<"_", "_", "i", "n", "t", "r", "o", "_", "_">>
Init__ == <<"_", "_", "i", "n", "i", "t", "_", "_">>
ReservedNames == {Intro, Init__}

CallNames == KeywordNames \cup ReservedNames

RECURSIVE SeqsUpTo(_)
SeqsUpTo(n) ==
    IF n = 0 THEN { <<>> }
    ELSE SeqsUpTo(n - 1) \cup { Append(s, "v") : s \in SeqsUpTo(n - 1) }

ArgLists == SeqsUpTo(MaxArgs)
NamedArgs == { {}, {"k"} }

----------------------------------------------------------------------------
(* The two base classes *)

RequiredDynamic == {"get_keyword_names", "run_keywords"}

OptionalDynamic ==
    {"get_keyword_documentation", "get_keyword_arguments", "get_keyword_types",
     "get_keyword_tags", "get_keyword_source"}

DocumentedRunName == "run_keyword"

MethodNames == RequiredDynamic \cup OptionalDynamic \cup {DocumentedRunName}

BaseClasses == {DynamicLibrary, HybridLibrary}

\* variant: HybridLibrary declared as a subclass of DynamicLibrary
HybridDerivesDynamic(cls) == IF cls = HybridLibrary THEN <<DynamicLibrary>> ELSE <<ABC>>

\* the bases each class statement lists
ClassBases(cls) == <<ABC>>

\* variant: HybridLibrary's body also carries run_keywords
HybridWithRunKeywords(cls) ==
    IF cls = DynamicLibrary THEN RequiredDynamic \cup OptionalDynamic
    ELSE IF cls = HybridLibrary THEN {"get_keyword_names", "run_keywords"}
    ELSE {}

\* the methods each class body defines
ClassDict(cls) ==
    IF cls = DynamicLibrary THEN RequiredDynamic \cup OptionalDynamic
    ELSE IF cls = HybridLibrary THEN {"get_keyword_names"}
    ELSE {}

\* variant: run_keywords left without its @abstractmethod decorator
RunKeywordsNotAbstract(cls) ==
    IF cls \in {DynamicLibrary, HybridLibrary} THEN {"get_keyword_names"} ELSE {}

\* the methods each class body decorates with @abstractmethod
AbstractIn(cls) ==
    IF cls = DynamicLibrary THEN {"get_keyword_names", "run_keywords"}
    ELSE IF cls = HybridLibrary THEN {"get_keyword_names"}
    ELSE {}

Returns(v, self) == [outcome |-> "return", value |-> v, names |-> {}, self |-> self]
Raises(e, self) == [outcome |-> "raise", value |-> e, names |-> {}, self |-> self]

\* variant: the required method ends like the optional ones
Silent_get_keyword_names(self) == Returns(None, self)

DynamicLibrary_get_keyword_names(self) == Raises(NotImplementedError, self)

DynamicLibrary_run_keywords(self, name, args, named) == Raises(NotImplementedError, self)

\* variant: the default remembers on the instance that it was asked
Remembering_get_keyword_documentation(self, name) ==
    Returns(None, IF self < MaxPrivate THEN self + 1 ELSE self)

DynamicLibrary_get_keyword_documentation(self, name) == Returns(None, self)

DynamicLibrary_get_keyword_arguments(self, name) == Returns(None, self)

DynamicLibrary_get_keyword_types(self, name) == Returns(None, self)

\* variant: the default refuses like the required methods do
Refusing_get_keyword_tags(self, name) == Raises(NotImplementedError, self)

DynamicLibrary_get_keyword_tags(self, name) == Returns(None, self)

DynamicLibrary_get_keyword_source(self, name) == Returns(None, self)

HybridLibrary_get_keyword_names(self) == Raises(NotImplementedError, self)

\* the body of method m of base class cls, run on an instance whose private
\* state is self
BaseCall(cls, m, self, name, args, named) ==
    IF cls = HybridLibrary THEN HybridLibrary_get_keyword_names(self)
    ELSE CASE m = "get_keyword_names" -> DynamicLibrary_get_keyword_names(self)
           [] m = "run_keywords" -> DynamicLibrary_run_keywords(self, name, args, named)
           [] m = "get_keyword_documentation" -> DynamicLibrary_get_keyword_documentation(self, name)
           [] m = "get_keyword_arguments" -> DynamicLibrary_get_keyword_arguments(self, name)
           [] m = "get_keyword_types" -> DynamicLibrary_get_keyword_types(self, name)
           [] m = "get_keyword_tags" -> DynamicLibrary_get_keyword_tags(self, name)
           [] OTHER -> DynamicLibrary_get_keyword_source(self, name)

----------------------------------------------------------------------------
(* Python's class machinery *)

\* a class followed by its ancestors that can define methods
Linear(cls) == <<cls>> \o SelectSeq(ClassBases(cls), LAMBDA b : b \in BaseClasses)

RECURSIVE Flatten(_)
Flatten(bs) == IF bs = <<>> THEN <<>> ELSE Linear(Head(bs)) \o Flatten(Tail(bs))

\* the classes searched after the plugin class itself
BasesMRO(p) == Flatten(p.bases)

Range(s) == { s[i] : i \in 1..Len(s) }

FirstDefining(classes, m) ==
    IF \E i \in 1..Len(classes) : m \in ClassDict(classes[i])
    THEN classes[CHOOSE i \in 1..Len(classes) :
                   /\ m \in ClassDict(classes[i])
                   /\ \A j \in 1..(i - 1) : m \notin ClassDict(classes[j])]
    ELSE NoClass

\* variant: a plugin that overrides one optional method hides the defaults of
\* the others
ShadowingLookup(p, m) ==
    IF m \in p.own THEN Plugin
    ELSE IF m \in OptionalDynamic /\ p.own \cap OptionalDynamic # {} THEN NoClass
    ELSE FirstDefining(BasesMRO(p), m)

\* attribute lookup on an instance: the plugin's body first, then the bases
Lookup(p, m) == IF m \in p.own THEN Plugin ELSE FirstDefining(BasesMRO(p), m)

\* super().m inside a method of the plugin class
SuperLookup(p, m) == FirstDefining(BasesMRO(p), m)

IsSubclass(p, cls) == cls \in Range(BasesMRO(p))

\* ABCMeta: the abstract names of the bases that still resolve to an
\* abstract method
AbstractMethods(p) ==
    { m \in UNION { AbstractIn(b) : b \in Range(BasesMRO(p)) } :
        /\ Lookup(p, m) # Plugin
        /\ m \in AbstractIn(Lookup(p, m)) }

----------------------------------------------------------------------------
(* The plugin: a library class deriving from the base classes *)

BaseLists ==
    { <<DynamicLibrary>>, <<HybridLibrary>>,
      <<DynamicLibrary, HybridLibrary>>, <<HybridLibrary, DynamicLibrary>> }

PluginClasses ==
    { p \in [bases : BaseLists,
             own : SUBSET MethodNames,
             delegates : BOOLEAN,
             names : { S \in SUBSET KeywordNames : Cardinality(S) <= MaxKeywords }] :
        p.delegates => p.own # {} }

NoPlugin == [bases |-> <<>>, own |-> {}, delegates |-> FALSE, names |-> {}]

\* a method the plugin's body defines: it may count the call in the plugin's
\* private state (touch), and it returns its own value or what super() gives
PluginBody(p, m, self, name, args, named, touch) ==
    LET self2 == IF touch THEN self + 1 ELSE self
        sup == SuperLookup(p, m)
    IN  IF p.delegates
        THEN IF sup = NoClass THEN Raises(AttributeError, self2)
             ELSE BaseCall(sup, m, self2, name, args, named)
        ELSE IF m = "get_keyword_names"
             THEN [Returns(NameList, self2) EXCEPT !.names = p.names]
             ELSE Returns(OwnValue, self2)

\* instance.m(...): what the call evaluates to
Invoke(p, m, self, name, args, named, touch) ==
    LET impl == Lookup(p, m)
    IN  IF impl = NoClass THEN Raises(AttributeError, self)
        ELSE IF impl = Plugin THEN PluginBody(p, m, self, name, args, named, touch)
        ELSE BaseCall(impl, m, self, name, args, named)

NoCall ==
    [method |-> "-", name |-> <<>>, args |-> <<>>, impl |-> NoClass, super |-> NoClass,
     outcome |-> "-", value |-> "-", names |-> {}]

CallRecord(p, m, name, args, r) ==
    [method |-> m, name |-> name, args |-> args,
     impl |-> Lookup(p, m),
     super |-> IF Lookup(p, m) = Plugin /\ p.delegates THEN SuperLookup(p, m) ELSE NoClass,
     outcome |-> r.outcome, value |-> r.value, names |-> r.names]

----------------------------------------------------------------------------
(* Actions *)

Init ==
    /\ plugin = NoPlugin
    /\ inst = "undefined"
    /\ attrs = 0
    /\ last = NoCall
    /\ enumerated = {}

\* class P(<bases>): ...
DefineClass ==
    /\ inst = "undefined"
    /\ plugin' \in PluginClasses
    /\ inst' = "defined"
    /\ UNCHANGED <<attrs, last, enumerated>>

\* P(): object creation refuses a class that still has abstract methods
Instantiate ==
    /\ inst = "defined"
    /\ inst' = IF AbstractMethods(plugin) = {} THEN "instance" ELSE TypeError
    /\ UNCHANGED <<plugin, attrs, last, enumerated>>

\* instance.m(...) made by an idle caller; the result stays in last until the
\* caller goes on
Call(m, name, args, named) ==
    /\ inst = "instance"
    /\ last = NoCall
    /\ \E touch \in BOOLEAN :
          /\ touch => (Lookup(plugin, m) = Plugin /\ attrs < MaxPrivate)
          /\ LET r == Invoke(plugin, m, attrs, name, args, named, touch)
             IN  /\ attrs' = r.self
                 /\ last' = CallRecord(plugin, m, name, args, r)
    /\ UNCHANGED <<plugin, inst>>

\* the caller takes the result (or handles the exception) and goes on
Continue ==
    /\ last # NoCall
    /\ last' = NoCall
    /\ UNCHANGED <<plugin, inst, attrs, enumerated>>

CallGetKeywordNames ==
    /\ Call("get_keyword_names", <<>>, <<>>, {})
    /\ UNCHANGED enumerated

CallRunKeywords(name, args, named) ==
    /\ Call("run_keywords", name, args, named)
    /\ UNCHANGED enumerated

\* the method name the class documentation gives
CallRunKeyword(name, args, named) ==
    /\ Call(DocumentedRunName, name, args, named)
    /\ UNCHANGED enumerated

CallOptional(m, name) ==
    /\ Call(m, name, <<>>, {})
    /\ UNCHANGED enumerated

Next ==
    \/ DefineClass
    \/ Instantiate
    \/ CallGetKeywordNames
    \/ \E n \in CallNames, a \in ArgLists, k \in NamedArgs : CallRunKeywords(n, a, k)
    \/ \E n \in CallNames, a \in ArgLists, k \in NamedArgs : CallRunKeyword(n, a, k)
    \/ \E m \in OptionalDynamic, n \in CallNames : CallOptional(m, n)
    \/ Continue

Spec == Init /\ [][Next]_vars

----------------------------------------------------------------------------
(* The caller: the engine that imports a dynamic library, enumerates its    *)
(* keywords and then uses the names                                         *)

Lower(c) == IF c = "K" THEN "k" ELSE c

\* case-, space- and underscore-insensitive form of a name
Normalize(n) ==
    LET kept == SelectSeq(n, LAMBDA c : c \notin {"_", " "})
    IN  [i \in 1..Len(kept) |-> Lower(kept[i])]

\* variant: the engine hands over the normalized form
NormalizedName(n) == Normalize(n)

\* the name the engine hands to the library for an enumerated name
PassedName(n) == n

EngineEnumerate ==
    /\ IsSubclass(plugin, DynamicLibrary)
    /\ Call("get_keyword_names", <<>>, <<>>, {})
    /\ enumerated' = IF last'.outcome = "return" THEN last'.names ELSE enumerated

EngineRun(n, args, named) ==
    /\ IsSubclass(plugin, DynamicLibrary)
    /\ n \in enumerated
    /\ Call("run_keywords", PassedName(n), args, named)
    /\ UNCHANGED enumerated

EngineIntrospect(m, n) ==
    /\ IsSubclass(plugin, DynamicLibrary)
    /\ \/ n \in enumerated
       \/ m = "get_keyword_documentation" /\ n \in ReservedNames
    /\ Call(m, IF n \in ReservedNames THEN n ELSE PassedName(n), <<>>, {})
    /\ UNCHANGED enumerated

NextEngine ==
    \/ DefineClass
    \/ Instantiate
    \/ EngineEnumerate
    \/ \E n \in KeywordNames, a \in ArgLists, k \in NamedArgs : EngineRun(n, a, k)
    \/ \E m \in OptionalDynamic, n \in CallNames : EngineIntrospect(m, n)
    \/ Continue

SpecEngine == Init /\ [][NextEngine]_vars

----------------------------------------------------------------------------
(* Properties *)

Attempted == inst \in {"instance", TypeError}

\* C1: for a DynamicLibrary plugin that overrides none of the five optional
\* introspection methods, every call to any of them, with any name, returns
\* None and does not raise.
C1_DefaultsReturnNone ==
    ( /\ IsSubclass(plugin, DynamicLibrary)
      /\ plugin.own \cap OptionalDynamic = {}
      /\ last.method \in OptionalDynamic )
    => (last.outcome = "return" /\ last.value = None)

\* a default called with a name the plugin never enumerated
C1_Witness ==
    /\ IsSubclass(plugin, DynamicLibrary)
    /\ plugin.own \cap OptionalDynamic = {}
    /\ last.method = "get_keyword_tags"
    /\ last.name \in KeywordNames \ plugin.names
    /\ last.outcome = "return"
    /\ last.value = None

\* C2: the five optional methods are independently omittable: whatever subset
\* a DynamicLibrary plugin overrides, a call to an overridden method runs the
\* plugin's body (and returns the plugin's own value when the body does not
\* delegate), and a call to a method it does not override returns None.
C2_IndependentlyOmittable ==
    ( /\ inst = "instance"
      /\ IsSubclass(plugin, DynamicLibrary)
      /\ last.method \in OptionalDynamic )
    => IF last.method \in plugin.own
       THEN /\ last.impl = Plugin
            /\ ~plugin.delegates => (last.outcome = "return" /\ last.value = OwnValue)
       ELSE last.outcome = "return" /\ last.value = None

\* some optional methods overridden, the one called is not
C2_Witness ==
    /\ inst = "instance"
    /\ IsSubclass(plugin, DynamicLibrary)
    /\ plugin.own \cap OptionalDynamic # {}
    /\ last.method \in OptionalDynamic \ plugin.own
    /\ last.outcome = "return"
    /\ last.value = None

C4_DocumentedNamesSuffice ==
    ( /\ plugin.bases = <<DynamicLibrary>>
      /\ plugin.own = {"get_keyword_names", "run_keyword"}
      /\ Attempted )
    => inst = "instance"

\* C5: HybridLibrary exposes get_keyword_names and nothing else: a plugin
\* deriving from it alone is instantiable exactly when it implements
\* get_keyword_names, and every method it does not define itself is missing.
C5_HybridOnlyNames ==
    plugin.bases = <<HybridLibrary>>
    => /\ Attempted => (inst = "instance" <=> "get_keyword_names" \in plugin.own)
       /\ (last # NoCall /\ last.method \notin plugin.own)
            => (last.outcome = "raise" /\ last.value = AttributeError)

\* a hybrid plugin implementing only get_keyword_names is asked to run a keyword
C5_Witness ==
    /\ plugin.bases = <<HybridLibrary>>
    /\ plugin.own = {"get_keyword_names"}
    /\ inst = "instance"
    /\ last.method = "run_keywords"
    /\ last.value = AttributeError

\* C6 (as stated): no instantiated plugin is at the same time a DynamicLibrary
\* and a HybridLibrary.
C6_MutuallyExclusive ==
    inst = "instance"
    => ~(IsSubclass(plugin, DynamicLibrary) /\ IsSubclass(plugin, HybridLibrary))

\* C6 (amended): the two base classes are unrelated, so an instantiated plugin
\* is both a DynamicLibrary and a HybridLibrary exactly when its class
\* statement lists both; a plugin listing one base is an instance of that one
\* only.
C6_BothOnlyWhenDerivingFromBoth ==
    inst = "instance"
    => ( (IsSubclass(plugin, DynamicLibrary) /\ IsSubclass(plugin, HybridLibrary))
         <=> {DynamicLibrary, HybridLibrary} \subseteq Range(plugin.bases) )

\* an instance of a class that lists both bases
C6_Witness ==
    /\ inst = "instance"
    /\ plugin.bases = <<DynamicLibrary, HybridLibrary>>
    /\ IsSubclass(plugin, DynamicLibrary)
    /\ IsSubclass(plugin, HybridLibrary)

C9_DefaultsStateless ==
    [][ ( /\ last = NoCall
          /\ last' # NoCall
          /\ last'.method \in OptionalDynamic
          /\ last'.impl = DynamicLibrary )
        => /\ attrs' = attrs
           /\ plugin' = plugin
           /\ inst' = inst
           /\ last'.outcome = "return"
           /\ last'.value = None ]_vars

\* a default is called after the plugin's own methods changed its private state
C9_Witness ==
    /\ attrs > 0
    /\ last.method \in OptionalDynamic
    /\ last.impl = DynamicLibrary
    /\ last.value = None

\* C10: when a plugin's method delegates to the base implementation of a
\* required operation, the call ends by raising NotImplementedError, for every
\* argument.
C10_RequiredBasesRaise ==
    (last.method \in {"get_keyword_names", "run_keywords"} /\ last.super \in BaseClasses)
    => (last.outcome = "raise" /\ last.value = NotImplementedError)

\* a plugin's run_keywords delegates to DynamicLibrary.run_keywords with arguments
C10_Witness ==
    /\ last.method = "run_keywords"
    /\ last.super = DynamicLibrary
    /\ last.args # <<>>
    /\ last.outcome = "raise"
    /\ last.value = NotImplementedError

====
